---- MODULE Spec2Model ----
(***************************************************************************)
(* The game session of the Home component (frontend page): the React state *)
(* of the component is the state of the model, and every event handler,    *)
(* effect, timer callback and fetch completion is one action.              *)
(*                                                                         *)
(* Scheduling.  Guesses and clicks are discrete events: React renders      *)
(* synchronously after each of them and flushes the passive effects of     *)
(* that render before the next event is dispatched, so a handler, the      *)
(* render that follows it and the effects of that render are one atomic    *)
(* step, and the closures a handler reads (onGuess: phase, word, guessed,  *)
(* revealed, players, currentIdx, mode, lives, and score, which only       *)
(* changes together with one of these) hold the current state.  The       *)
(* checkAchievements and the saveScore that onGuess calls are not among    *)
(* its dependencies: onGuess keeps those of the render that rebuilt it,    *)
(* and the variable closure holds what they see.                           *)
(***************************************************************************)
EXTENDS Integers, Sequences, FiniteSets, TLC

(* ------------------------------ bounds --------------------------------- *)
\* how many keys of KeyOrder the player ever presses
NumKeys == 9
\* how many startGame calls are awaiting their fetch at the same time
MaxFetches == 2
\* a round is only started (requested, and its response delivered) while
\* score is at most MaxScore, perfectStreak is below MaxPerfect, at most
\* MaxUsed power-up uses and MaxWords solved words are counted, and at most
\* MaxUnlocked achievements are unlocked
MaxScore == 0
MaxPerfect == 1
MaxUsed == 0
MaxWords == 0
MaxUnlocked == 0
\* the power-up uses carried into a round of SpecSolo
MaxCarried == 2
\* solo rounds won before the last round is started
MaxRounds == 1
\* solo rounds won before the last round of SpecWins is started
MaxWins == 4
\* solo rounds won before the last round of SpecReturn is started
MaxReturn == 9

(* --------------------------- program constants ------------------------- *)
MAX_LIVES == 6

Null == "null"

POOL == <<"doublePoints", "revealLetter", "extraLife">>

\* the on-screen keyboard
alphabet ==
  <<"A","B","C","D","E","F","G","H","I","J","K","L","M","N","O","P","Q","R",
    "S","T","U","V","W","X","Y","Z","-">>

\* String.prototype.toLowerCase on one character of the keyboard
lowerCase ==
  <<"a","b","c","d","e","f","g","h","i","j","k","l","m","n","o","p","q","r",
    "s","t","u","v","w","x","y","z","-">>

lowerOf == [c \in {alphabet[i] : i \in DOMAIN alphabet} |->
              lowerCase[CHOOSE i \in DOMAIN alphabet : alphabet[i] = c]]

toLowerCase(c) == IF c \in DOMAIN lowerOf THEN lowerOf[c] ELSE c

\* the key of the on-screen keyboard that shows the character c
keyOf == [c \in {lowerCase[i] : i \in DOMAIN lowerCase} |->
            alphabet[CHOOSE i \in DOMAIN lowerCase : lowerCase[i] = c]]

LowerWord(w) == [i \in DOMAIN w |-> toLowerCase(w[i])]

(* ------------------------------ inputs --------------------------------- *)
\* the order in which keys are admitted to the model: two letters of the
\* words, then characters that occur in no word
KeyOrder ==
  <<"o","h","a","b","c","d","f","g","-","i","j","k","m","n","p","q","r","s",
    "t","u","v","w","x","y","z","e","l">>

\* the keys the player presses.  KeyCapture passes them on in lower case,
\* LetterKey passes on the upper case character of the on-screen keyboard.
Keys == {KeyOrder[i] : i \in 1..NumKeys}

\* what the player types into the name field
NameInputs == {"ann", " bob ", "  "}

\* String.prototype.trim on the inputs above
trim(s) ==
  CASE s = " bob " -> "bob"
    [] s = "  " -> ""
    [] OTHER -> s

\* `Player ${currentIdx + 1}`
PlayerLabel(idx) == <<"Player 1", "Player 2", "Player 3">>[idx + 1]

\* what GET /game/random can answer: a thrown fetch, a non-OK response, or
\* an OK response with its JSON body.  Strings that are indexed are
\* sequences of characters; display <<>> stands for a body without display.
Responses ==
  { [kind |-> "throw", word |-> <<>>, meaning |-> "", display |-> <<>>],
    [kind |-> "notOk", word |-> <<>>, meaning |-> "", display |-> <<>>],
    [kind |-> "ok", word |-> <<"O","h","o">>, meaning |-> "", display |-> <<>>],
    [kind |-> "ok", word |-> <<"O","h","o">>, meaning |-> "a cry", display |-> <<>>] }

(* ------------------------------- state --------------------------------- *)
VARIABLES
  mode,              \* "solo" | "multi"
  players,           \* sequence of names
  phase,             \* "setup" | "play" | "finished"
  currentIdx,        \* 0-based index into players
  word,              \* sequence of characters
  displayRaw,
  meaning,
  revealed,          \* sequence of booleans
  guessed,           \* function: guessed character -> "correct" | "wrong"
  winner,
  result,
  error,
  powerUp,           \* the power-up the effect is to apply, or Null
  lives,
  score,
  streak,
  scoreMultiplier,
  perfectStreak,
  availablePowerUps, \* sequence of power-up kinds
  timer,             \* TRUE while the 30 s timeout of doublePoints is pending
  inflight,          \* mode captured by startGame -> calls awaiting their fetch
  livesGained,       \* history: extra lives applied since the round started
  powerUpsUsed,      \* runs of the power-up effect with a power-up set
  wordsCompleted,    \* solo rounds won
  doublePointsUsed,  \* runs of the doublePoints branch of the effect
  revealLetterUsed,  \* runs of the revealLetter branch of the effect
  achievements,      \* sequence of unlocked achievement ids
  showAchievement,   \* the id shown as notification, or Null
  toasts,            \* pending 4 s timeouts of the notification
  session,           \* TRUE when useSession has delivered a session
  loading,           \* loadAchievements calls awaiting their fetch
  closure,           \* what the onGuess of the last render that rebuilt it sees
  saveTimers,        \* pending 100 ms timeouts of saveScore, oldest first
  unlockRequests,    \* ids posted to /achievements/unlock, in order
  scoreRequests      \* bodies posted to /scores, in order

vars ==
  <<mode, players, phase, currentIdx, word, displayRaw, meaning, revealed,
    guessed, winner, result, error, powerUp, lives, score, streak,
    scoreMultiplier, perfectStreak, availablePowerUps, timer, inflight,
    livesGained, powerUpsUsed, wordsCompleted, doublePointsUsed,
    revealLetterUsed, achievements, showAchievement, toasts, session, loading,
    closure, saveTimers, unlockRequests, scoreRequests>>

\* the usage counters of the power-up effect
usage == <<powerUpsUsed, doublePointsUsed, revealLetterUsed>>

\* what checkAchievements writes
awards == <<achievements, showAchievement, toasts, unlockRequests>>

\* the session and the calls of loadAchievements
account == <<session, loading>>

\* what saveScore writes
outbox == <<saveTimers, scoreRequests>>

Modes == {"solo", "multi"}

\* onGuess is rebuilt in the renders in which one of phase, word, guessed,
\* revealed, players, currentIdx, mode, lives has changed, and keeps the
\* checkAchievements and the saveScore of that render: their achievements,
\* usage counters and session are those of that render.
Captured(ach, pu, dp, rl, se) ==
  [achievements |-> ach, powerUpsUsed |-> pu, doublePointsUsed |-> dp,
   revealLetterUsed |-> rl, session |-> se]

Init ==
  /\ mode = "solo"
  /\ players = <<>>
  /\ phase = "setup"
  /\ currentIdx = 0
  /\ word = <<>>
  /\ displayRaw = <<>>
  /\ meaning = ""
  /\ revealed = <<>>
  /\ guessed = <<>>
  /\ winner = Null
  /\ result = Null
  /\ error = Null
  /\ powerUp = Null
  /\ lives = MAX_LIVES
  /\ score = 0
  /\ streak = 0
  /\ scoreMultiplier = 1
  /\ perfectStreak = 0
  /\ availablePowerUps = <<>>
  /\ timer = FALSE
  /\ inflight = [m \in Modes |-> 0]
  /\ livesGained = 0
  /\ powerUpsUsed = 0
  /\ wordsCompleted = 0
  /\ doublePointsUsed = 0
  /\ revealLetterUsed = 0
  /\ achievements = <<>>
  /\ showAchievement = Null
  /\ toasts = 0
  /\ session = FALSE
  /\ loading = 0
  /\ closure = Captured(<<>>, 0, 0, 0, FALSE)
  /\ saveTimers = <<>>
  /\ unlockRequests = <<>>
  /\ scoreRequests = <<>>

(* ------------------------------ helpers -------------------------------- *)
Range(s) == {s[i] : i \in DOMAIN s}

\* Array.prototype.filter
RECURSIVE Filter(_, _)
Filter(s, keep) ==
  IF s = <<>> THEN <<>>
  ELSE IF Head(s) \in keep THEN <<Head(s)>> \o Filter(Tail(s), keep)
  ELSE Filter(Tail(s), keep)

\* mutant: one element short
ArrayOfShort(n, b) == [i \in 1..(n - 1) |-> b]

\* Array.from({ length: n }, () => b)
ArrayOf(n, b) == [i \in 1..n |-> b]

\* mutant: one revealed position is enough
EverySome(rev) == \E i \in DOMAIN rev : rev[i]

\* newRev.every(Boolean)
Every(rev) == \A i \in DOMAIN rev : rev[i]

\* mutant: the loop stops at the first match
matchIdxFirst(w, ch) == {i \in DOMAIN w : w[i] = ch /\ \A j \in 1..(i - 1) : w[j] # ch}

\* the matchIdx loop of onGuess
matchIdx(w, ch) == {i \in DOMAIN w : w[i] = ch}

\* mutant: only the first matched position is marked
newRevOne(rev, m) == [i \in DOMAIN rev |-> IF i \in m /\ \A j \in m : i <= j THEN TRUE ELSE rev[i]]

\* newRev = revealed.slice(); matchIdx.forEach((i) => (newRev[i] = true))
newRev(rev, m) == [i \in DOMAIN rev |-> IF i \in m THEN TRUE ELSE rev[i]]

\* mutant: 10 points per guess instead of per revealed position
letterPointsFlat(s, k) == s + 10

\* s + 10 * matchIdx.length
letterPoints(s, k) == s + 10 * k

\* const finalScore = score + 20 * lives
finalScore(sc, lv) == sc + 20 * lv

\* mutant: no wrong guess is counted
wrongGuessesNone(g) == 0

\* Object.values(guessed).filter(status => status === "wrong").length
wrongGuesses(g) == Cardinality({c \in DOMAIN g : g[c] = "wrong"})

\* s + 100, the bonus of a perfect game
perfectBonus(s) == s + 100

\* mutant: a wrong guess costs two lives
nextLivesTwo(lv) == lv - 2

\* mutant: a wrong guess costs a signed-in player nothing
nextLivesSignedIn(lv) == IF session THEN lv ELSE lv - 1

\* mutant: a guess that follows a wrong guess reads the lives of before it
nextLivesStale(lv) == IF lv < MAX_LIVES THEN lv ELSE lv - 1

\* const nextLives = lives - 1
nextLives(lv) == lv - 1

\* mutant: the round goes on with no life left
outOfLivesLate(nl) == nl < 0

\* if (nextLives <= 0)
outOfLives(nl) == nl <= 0

\* (idx) => (players.length ? (idx + 1) % players.length : idx)
nextIdx(idx, ps) == IF Len(ps) # 0 THEN (idx + 1) % Len(ps) ELSE idx

\* mutant: the first player always wins
winnerFirst(ps, idx) == IF 1 \in DOMAIN ps THEN ps[1] ELSE PlayerLabel(0)

\* players[currentIdx] ?? `Player ${currentIdx + 1}`
winnerOf(ps, idx) == IF idx + 1 \in DOMAIN ps THEN ps[idx + 1] ELSE PlayerLabel(idx)

\* mutant: the last unrevealed position instead of the first
unrevealedIndexLast(rev) ==
  IF \E i \in DOMAIN rev : ~rev[i]
    THEN CHOOSE i \in DOMAIN rev : ~rev[i] /\ \A j \in (i + 1)..Len(rev) : rev[j]
    ELSE 0

\* revealed.findIndex(r => !r), 1-based; 0 when there is none (-1 in the code)
unrevealedIndex(rev) ==
  IF \E i \in DOMAIN rev : ~rev[i]
    THEN CHOOSE i \in DOMAIN rev : ~rev[i] /\ \A j \in 1..(i - 1) : rev[j]
    ELSE 0

\* POOL.filter((p) => !prev.includes(p))
remaining(prev) == Filter(POOL, Range(POOL) \ Range(prev))

\* prev.filter((p) => p !== type)
consume(prev, type) == Filter(prev, Range(prev) \ {type})

(* ------------------------- the power-up effect ------------------------- *)
\* The effect of lines 219-259 has the dependencies [powerUp, revealed,
\* lives].  Its doublePoints branch returns before setPowerUp(null), so
\* powerUp keeps the value "doublePoints"; from then on every render in which
\* revealed (a new array) or lives has changed runs the cleanup of the last
\* run (clearTimeout) and the effect again: the multiplier is set to 2 and a
\* new timeout is armed.
EffectRerunMultiplier == IF powerUp = "doublePoints" THEN 2 ELSE scoreMultiplier
EffectRerunTimer == IF powerUp = "doublePoints" THEN TRUE ELSE timer

\* setPowerUpsUsed(prev => prev + 1), setDoublePointsUsed(prev => prev + 1)
used(prev) == prev + 1

\* the counters after such a render
EffectRerunUsage ==
  /\ powerUpsUsed' = IF powerUp = "doublePoints" THEN used(powerUpsUsed) ELSE powerUpsUsed
  /\ doublePointsUsed' =
       IF powerUp = "doublePoints" THEN used(doublePointsUsed) ELSE doublePointsUsed
  /\ UNCHANGED revealLetterUsed

(* --------------------------- achievements ------------------------------ *)
\* the ids of the table ACHIEVEMENTS, in its order
ACHIEVEMENTS ==
  <<"firstWin", "perfectGame", "streak5", "streak10", "perfectStreak3",
    "perfectStreak5", "perfectStreak10", "highScore", "megaScore", "speedster",
    "powerMaster", "wordsmith", "scholar", "multiplierMania", "detective",
    "survivor", "comeback">>

\* the ids checkAchievements tests, in the order of its tests
tested ==
  <<"firstWin", "perfectGame", "streak5", "streak10", "perfectStreak3",
    "perfectStreak5", "perfectStreak10", "highScore", "megaScore", "speedster",
    "survivor", "powerMaster", "wordsmith", "scholar", "multiplierMania",
    "detective">>

\* mutant: only the last unlocked id is looked at
includesLast(ach, id) == ach # <<>> /\ ach[Len(ach)] = id

\* achievements.includes(id)
includes(ach, id) == \E i \in DOMAIN ach : ach[i] = id

\* What the checkAchievements held by onGuess reads: streak, perfectStreak,
\* lives and wordsCompleted change only in renders that rebuild onGuess, the
\* rest is what that render had.
Seen ==
  [streak |-> streak, perfectStreak |-> perfectStreak, lives |-> lives,
   wordsCompleted |-> wordsCompleted,
   achievements |-> closure.achievements,
   powerUpsUsed |-> closure.powerUpsUsed,
   doublePointsUsed |-> closure.doublePointsUsed,
   revealLetterUsed |-> closure.revealLetterUsed]

\* streak + 1 >= 5, perfectStreak + 1 >= 3, newWordCount >= 25, ...
reaches(t, n) == t + 1 >= n

\* the test of checkAchievements that precedes !achievements.includes(id)
qualifies(id, gameData, c) ==
  CASE id = "firstWin" -> c.streak = 0 /\ gameData.won
    [] id = "perfectGame" -> gameData.perfect
    [] id = "streak5" -> gameData.won /\ reaches(c.streak, 5)
    [] id = "streak10" -> gameData.won /\ reaches(c.streak, 10)
    [] id = "perfectStreak3" ->
         gameData.won /\ gameData.perfect /\ reaches(c.perfectStreak, 3)
    [] id = "perfectStreak5" ->
         gameData.won /\ gameData.perfect /\ reaches(c.perfectStreak, 5)
    [] id = "perfectStreak10" ->
         gameData.won /\ gameData.perfect /\ reaches(c.perfectStreak, 10)
    [] id = "highScore" -> gameData.finalScore >= 500
    [] id = "megaScore" -> gameData.finalScore >= 1000
    [] id = "speedster" -> gameData.won /\ c.lives = MAX_LIVES
    [] id = "survivor" -> gameData.won /\ c.lives = 1
    [] id = "powerMaster" -> c.powerUpsUsed >= 10
    [] id = "wordsmith" -> gameData.won /\ reaches(c.wordsCompleted, 25)
    [] id = "scholar" -> gameData.won /\ reaches(c.wordsCompleted, 100)
    [] id = "multiplierMania" -> c.doublePointsUsed >= 5
    [] id = "detective" -> c.revealLetterUsed >= 10
    [] OTHER -> FALSE

\* newAchievements of checkAchievements(gameData)
checkAchievements(gameData, c) ==
  Filter(tested, {id \in Range(tested) :
                    qualifies(id, gameData, c) /\ ~includes(c.achievements, id)})

\* the gameData of the two calls of onGuess
wonData(isPerfect) ==
  [won |-> TRUE, perfect |-> isPerfect,
   finalScore |-> finalScore(score, lives) + (IF isPerfect THEN 100 ELSE 0),
   livesRemaining |-> lives]
lostData ==
  [won |-> FALSE, perfect |-> FALSE, finalScore |-> score,
   livesRemaining |-> nextLives(lives)]

\* if (!session) return;  of saveAchievement and saveScore, with the session
\* of the render that built the function
credential(c) == c.session

\* the rest of checkAchievements: the update of the list, the notification
\* with its timeout, and the requests of saveAchievement
award(gameData) ==
  LET newAchievements == checkAchievements(gameData, Seen) IN
  IF newAchievements # <<>> THEN
    /\ achievements' = achievements \o newAchievements
    /\ showAchievement' = newAchievements[1]
    /\ toasts' = toasts + 1
    /\ unlockRequests' = IF credential(closure)
                           THEN unlockRequests \o newAchievements
                           ELSE unlockRequests
  ELSE UNCHANGED awards

\* the callback of setTimeout(() => setShowAchievement(null), 4000)
achievementTimeout ==
  /\ toasts > 0
  /\ toasts' = toasts - 1
  /\ showAchievement' = Null
  /\ UNCHANGED <<mode, players, phase, currentIdx, word, displayRaw, meaning,
                 revealed, guessed, winner, result, error, powerUp, lives,
                 score, streak, scoreMultiplier, perfectStreak,
                 availablePowerUps, timer, inflight, livesGained, usage,
                 wordsCompleted, achievements, unlockRequests, account,
                 closure, outbox>>

(* ------------------------------ saveScore ------------------------------ *)
\* the body of the request of saveScore(finalScore, finalStreak)
scoreBody(t) == [score |-> t.score, streak |-> t.streak, word |-> t.word]

\* the callback of setTimeout(() => saveScore(...), 100): the saveScore of
\* the render that built onGuess posts the score when it has a session
saveScore ==
  /\ saveTimers # <<>>
  /\ saveTimers' = Tail(saveTimers)
  /\ scoreRequests' = IF Head(saveTimers).session
                         THEN Append(scoreRequests, scoreBody(Head(saveTimers)))
                         ELSE scoreRequests
  /\ UNCHANGED <<mode, players, phase, currentIdx, word, displayRaw, meaning,
                 revealed, guessed, winner, result, error, powerUp, lives,
                 score, streak, scoreMultiplier, perfectStreak,
                 availablePowerUps, timer, inflight, livesGained, usage,
                 wordsCompleted, awards, account, closure>>

(* --------------------------- loadAchievements -------------------------- *)
\* the answers of GET /achievements: a failure, or a list
LoadResponses ==
  {[ok |-> FALSE, achievements |-> <<>>],
   [ok |-> TRUE, achievements |-> <<>>],
   [ok |-> TRUE, achievements |-> <<"firstWin">>]}

\* useSession delivers the session; the effect of lines 212-216 calls
\* loadAchievements, which sends its request
signedIn ==
  /\ ~session
  /\ session' = TRUE
  /\ loading' = loading + 1
  /\ UNCHANGED <<mode, players, phase, currentIdx, word, displayRaw, meaning,
                 revealed, guessed, winner, result, error, powerUp, lives,
                 score, streak, scoreMultiplier, perfectStreak,
                 availablePowerUps, timer, inflight, livesGained, usage,
                 wordsCompleted, awards, closure, outbox>>

\* the rest of loadAchievements once its fetch has settled with resp
loadAchievements(resp) ==
  /\ loading > 0
  /\ loading' = loading - 1
  /\ achievements' = IF resp.ok THEN resp.achievements ELSE achievements
  /\ UNCHANGED <<mode, players, phase, currentIdx, word, displayRaw, meaning,
                 revealed, guessed, winner, result, error, powerUp, lives,
                 score, streak, scoreMultiplier, perfectStreak,
                 availablePowerUps, timer, inflight, livesGained, usage,
                 wordsCompleted, showAchievement, toasts, unlockRequests,
                 session, closure, outbox>>

(* ------------------------------ onGuess -------------------------------- *)
\* the queue of setScore updates of one correct guess, applied in order
scoreUpdates(m, allRevealed, isPerfect) ==
  LET s1 == IF mode = "solo" THEN letterPoints(score, Cardinality(m)) ELSE score
      s2 == IF allRevealed /\ mode = "solo" THEN finalScore(score, lives) ELSE s1
      s3 == IF allRevealed /\ mode = "solo" /\ isPerfect THEN perfectBonus(s2) ELSE s2
  IN s3

CorrectGuess(ch, m) ==
  LET nr == newRev(revealed, m)
      allRevealed == Every(nr)
      isPerfect == wrongGuesses(guessed) = 0
  IN
  /\ revealed' = nr
  /\ guessed' = (ch :> "correct") @@ guessed
  /\ score' = scoreUpdates(m, allRevealed, isPerfect)
  /\ IF allRevealed /\ mode = "solo" THEN
       /\ result' = "win"
       /\ streak' = streak + 1
       /\ perfectStreak' = IF isPerfect THEN perfectStreak + 1 ELSE 0
       /\ wordsCompleted' = wordsCompleted + 1
       /\ phase' = "finished"
       /\ IF remaining(availablePowerUps) = <<>>
            THEN availablePowerUps' = availablePowerUps
            ELSE \E reward \in Range(remaining(availablePowerUps)) :
                   availablePowerUps' = Append(availablePowerUps, reward)
       /\ award(wonData(isPerfect))
       /\ saveTimers' =
            Append(saveTimers,
                   [score |-> wonData(isPerfect).finalScore, streak |-> streak + 1,
                    word |-> word, session |-> credential(closure)])
       /\ UNCHANGED winner
     ELSE IF allRevealed THEN
       /\ winner' = winnerOf(players, currentIdx)
       /\ phase' = "finished"
       /\ UNCHANGED <<result, streak, perfectStreak, availablePowerUps,
                      wordsCompleted, awards, saveTimers>>
     ELSE
       UNCHANGED <<result, streak, perfectStreak, availablePowerUps, winner, phase,
                   wordsCompleted, awards, saveTimers>>
  /\ closure' = Captured(achievements', powerUpsUsed, doublePointsUsed,
                         revealLetterUsed, session)
  /\ scoreMultiplier' = EffectRerunMultiplier
  /\ timer' = EffectRerunTimer
  /\ EffectRerunUsage
  /\ UNCHANGED <<mode, players, currentIdx, word, displayRaw, meaning, error,
                 powerUp, lives, inflight, livesGained, account, scoreRequests>>

WrongGuess(ch) ==
  /\ guessed' = (ch :> "wrong") @@ guessed
  /\ IF mode = "solo" THEN
       /\ lives' = nextLives(lives)
       /\ IF outOfLives(nextLives(lives)) THEN
            /\ revealed' = ArrayOf(Len(word), TRUE)
            /\ result' = "lose"
            /\ streak' = 0
            /\ perfectStreak' = 0
            /\ phase' = "finished"
            /\ award(lostData)
          ELSE UNCHANGED <<revealed, result, streak, perfectStreak, phase, awards>>
       /\ scoreMultiplier' = EffectRerunMultiplier
       /\ timer' = EffectRerunTimer
       /\ EffectRerunUsage
       /\ UNCHANGED currentIdx
     ELSE
       /\ currentIdx' = nextIdx(currentIdx, players)
       /\ UNCHANGED <<lives, revealed, result, streak, perfectStreak, phase,
                      scoreMultiplier, timer, usage, awards>>
  /\ closure' = Captured(achievements', powerUpsUsed, doublePointsUsed,
                         revealLetterUsed, session)
  /\ UNCHANGED <<mode, players, word, displayRaw, meaning, winner, error,
                 powerUp, score, availablePowerUps, inflight, livesGained,
                 wordsCompleted, account, outbox>>

\* mutant: the check of the phase and of the word is missing
guessAcceptedAnywhere(ch) == ch \notin DOMAIN guessed

\* mutant: the check for an already guessed character is missing
guessAcceptedAgain(ch) == phase = "play" /\ word # <<>>

\* if (phase !== "play" || !word) return;  if (guessed[ch]) return;
guessAccepted(ch) == phase = "play" /\ word # <<>> /\ ch \notin DOMAIN guessed

onGuess(raw) ==
  LET ch == toLowerCase(raw) IN
  IF ~guessAccepted(ch) THEN UNCHANGED vars
  ELSE IF matchIdx(word, ch) # {} THEN CorrectGuess(ch, matchIdx(word, ch))
  ELSE WrongGuess(ch)

(* --------------------------- handlePowerUp ----------------------------- *)
\* mutant: a button for every kind of the pool
powerUpButtonAll(type) == phase = "play" /\ mode = "solo"

\* The power-up buttons are rendered for the kinds of availablePowerUps,
\* while phase is "play" and mode is "solo".
powerUpButton(type) ==
  phase = "play" /\ mode = "solo" /\ type \in Range(availablePowerUps)

\* setRevealed(newRevealed) of the revealLetter branch
revealOne(rev) ==
  IF unrevealedIndex(rev) # 0
    THEN [rev EXCEPT ![unrevealedIndex(rev)] = TRUE]
    ELSE rev

\* setLives(lives => lives + 1)
extraLife(lv) == lv + 1

\* handlePowerUp, the render it causes and the effect of that render.  When
\* powerUp already holds the clicked kind (doublePoints, left there by an
\* earlier activation) no dependency of the effect changes and it does not
\* run.  Otherwise the cleanup of a doublePoints run clears its timeout, and
\* the effect applies the kind.
handlePowerUp(type) ==
  /\ powerUpButton(type)
  /\ availablePowerUps' = consume(availablePowerUps, type)
  /\ IF type = powerUp THEN
       UNCHANGED <<powerUp, scoreMultiplier, timer, revealed, lives, livesGained,
                   usage, closure>>
     ELSE IF type = "doublePoints" THEN
       /\ powerUp' = type
       /\ powerUpsUsed' = used(powerUpsUsed)
       /\ scoreMultiplier' = 2
       /\ doublePointsUsed' = used(doublePointsUsed)
       /\ timer' = TRUE
       /\ UNCHANGED <<revealed, lives, livesGained, revealLetterUsed, closure>>
     ELSE
       /\ powerUp' = Null
       /\ powerUpsUsed' = used(powerUpsUsed)
       /\ revealLetterUsed' =
            IF type = "revealLetter" THEN used(revealLetterUsed) ELSE revealLetterUsed
       /\ UNCHANGED doublePointsUsed
       /\ timer' = FALSE
       /\ revealed' = IF type = "revealLetter" THEN revealOne(revealed) ELSE revealed
       /\ lives' = IF type = "extraLife" THEN extraLife(lives) ELSE lives
       /\ livesGained' = IF type = "extraLife" THEN livesGained + 1 ELSE livesGained
       /\ closure' = IF type = "revealLetter" /\ unrevealedIndex(revealed) = 0
                       THEN closure
                       ELSE Captured(achievements, powerUpsUsed', doublePointsUsed',
                                     revealLetterUsed', session)
       /\ UNCHANGED scoreMultiplier
  /\ UNCHANGED <<mode, players, phase, currentIdx, word, displayRaw, meaning,
                 guessed, winner, result, error, score, streak, perfectStreak,
                 inflight, wordsCompleted, awards, account, outbox>>

\* the callback of setTimeout(..., 30000)
multiplierTimeout ==
  /\ timer
  /\ timer' = FALSE
  /\ scoreMultiplier' = 1
  /\ UNCHANGED <<mode, players, phase, currentIdx, word, displayRaw, meaning,
                 revealed, guessed, winner, result, error, powerUp, lives,
                 score, streak, perfectStreak, availablePowerUps, inflight,
                 livesGained, usage, wordsCompleted, awards, account, closure,
                 outbox>>

(* ------------------------------ startGame ------------------------------ *)
\* "Start" is rendered in setup (disabled in multiplayer with fewer than two
\* players), "New Word" in finished.
\* the session is within the bounds in which rounds are started
budget ==
  /\ Len(achievements) <= MaxUnlocked
  /\ score <= MaxScore
  /\ perfectStreak < MaxPerfect
  /\ powerUpsUsed <= MaxUsed
  /\ wordsCompleted <= MaxWords

startButton ==
  \/ phase = "setup" /\ ~(mode = "multi" /\ Len(players) < 2)
  \/ phase = "finished"

Pending == inflight["solo"] + inflight["multi"]

\* startGame up to its await: setError(null) and the request, which captures
\* the mode of the render the button belongs to
startGame ==
  /\ startButton
  /\ Pending < MaxFetches
  /\ error' = Null
  /\ inflight' = [inflight EXCEPT ![mode] = @ + 1]
  /\ UNCHANGED <<mode, players, phase, currentIdx, word, displayRaw, meaning,
                 revealed, guessed, winner, result, powerUp, lives, score,
                 streak, scoreMultiplier, perfectStreak, availablePowerUps,
                 timer, livesGained, usage, wordsCompleted, awards, account,
                 closure, outbox>>

\* if (data?.word && data?.meaning)
usable(resp) == resp.kind = "ok" /\ resp.word # <<>> /\ resp.meaning # ""

\* w, m and disp after the try/catch
fetchedWord(resp) == IF usable(resp) THEN LowerWord(resp.word) ELSE <<"h","e","l","l","o">>
fetchedMeaning(resp) == IF usable(resp) THEN resp.meaning ELSE "a greeting"
fetchedDisplay(resp) ==
  IF usable(resp)
    THEN (IF resp.display # <<>> THEN resp.display ELSE LowerWord(resp.word))
  ELSE IF resp.kind = "throw" THEN <<"h","e","l","l","o">>
  ELSE <<>>

\* the rest of a startGame call whose fetch has settled with resp; m is the
\* mode the call captured
startGameResume(m, resp) ==
  /\ inflight[m] > 0
  /\ inflight' = [inflight EXCEPT ![m] = @ - 1]
  /\ error' = IF resp.kind = "throw"
                THEN "Could not reach backend, using a fallback word."
                ELSE error
  /\ word' = fetchedWord(resp)
  /\ displayRaw' = fetchedDisplay(resp)
  /\ meaning' = fetchedMeaning(resp)
  /\ revealed' = ArrayOf(Len(fetchedWord(resp)), FALSE)
  /\ guessed' = <<>>
  /\ IF m = "solo"
       THEN \E starter \in Range(POOL) : availablePowerUps' = <<starter>>
       ELSE availablePowerUps' = <<>>
  /\ currentIdx' = 0
  /\ winner' = Null
  /\ result' = Null
  /\ lives' = MAX_LIVES
  /\ livesGained' = 0
  /\ phase' = "play"
  /\ scoreMultiplier' = EffectRerunMultiplier
  /\ timer' = EffectRerunTimer
  /\ EffectRerunUsage
  /\ closure' = Captured(achievements, powerUpsUsed, doublePointsUsed,
                         revealLetterUsed, session)
  /\ UNCHANGED <<mode, players, powerUp, score, streak, perfectStreak,
                 wordsCompleted, awards, account, outbox>>

(* ------------------------------- Reset --------------------------------- *)
\* the Reset button is rendered outside setup
Reset ==
  /\ phase # "setup"
  /\ phase' = "setup"
  /\ players' = <<>>
  /\ guessed' = <<>>
  /\ revealed' = <<>>
  /\ winner' = Null
  /\ result' = Null
  /\ word' = <<>>
  /\ meaning' = ""
  /\ displayRaw' = <<>>
  /\ currentIdx' = 0
  /\ lives' = MAX_LIVES
  /\ livesGained' = 0
  /\ availablePowerUps' = <<>>
  /\ score' = 0
  /\ streak' = 0
  /\ scoreMultiplier' = EffectRerunMultiplier
  /\ timer' = EffectRerunTimer
  /\ EffectRerunUsage
  /\ closure' = Captured(achievements, powerUpsUsed, doublePointsUsed,
                         revealLetterUsed, session)
  /\ UNCHANGED <<mode, error, powerUp, perfectStreak, inflight, wordsCompleted,
                 awards, account, outbox>>

(* --------------------------- the setup form ---------------------------- *)
setMode(m) ==
  /\ phase = "setup"
  /\ mode' = m
  /\ closure' = IF m = mode THEN closure
                 ELSE Captured(achievements, powerUpsUsed, doublePointsUsed,
                               revealLetterUsed, session)
  /\ UNCHANGED <<players, phase, currentIdx, word, displayRaw, meaning,
                 revealed, guessed, winner, result, error, powerUp, lives,
                 score, streak, scoreMultiplier, perfectStreak,
                 availablePowerUps, timer, inflight, livesGained, usage,
                 wordsCompleted, awards, account, outbox>>

addPlayer(nameInput) ==
  /\ phase = "setup"
  /\ mode = "multi"
  /\ players' = IF trim(nameInput) = "" THEN players
                ELSE Append(players, trim(nameInput))
  /\ closure' = IF trim(nameInput) = "" THEN closure
                 ELSE Captured(achievements, powerUpsUsed, doublePointsUsed,
                               revealLetterUsed, session)
  /\ UNCHANGED <<mode, phase, currentIdx, word, displayRaw, meaning, revealed,
                 guessed, winner, result, error, powerUp, lives, score, streak,
                 scoreMultiplier, perfectStreak, availablePowerUps, timer,
                 inflight, livesGained, usage, wordsCompleted, awards, account,
                 outbox>>

\* prev.filter((_, i) => i !== idx)
removeAt(ps, idx) == SubSeq(ps, 1, idx) \o SubSeq(ps, idx + 2, Len(ps))

removePlayer(idx) ==
  /\ phase = "setup"
  /\ mode = "multi"
  /\ idx + 1 \in DOMAIN players
  /\ players' = removeAt(players, idx)
  /\ closure' = Captured(achievements, powerUpsUsed, doublePointsUsed,
                         revealLetterUsed, session)
  /\ UNCHANGED <<mode, phase, currentIdx, word, displayRaw, meaning, revealed,
                 guessed, winner, result, error, powerUp, lives, score, streak,
                 scoreMultiplier, perfectStreak, availablePowerUps, timer,
                 inflight, livesGained, usage, wordsCompleted, awards, account,
                 outbox>>

(* --------------------------- specification ----------------------------- *)
\* The code treats every character that does not occur in the word alike, so
\* of the keys that are neither in the word nor guessed yet the player
\* presses the first one of KeyOrder; keys of the word and keys already
\* guessed are pressed in any order.
Pressed ==
  LET fresh == {i \in 1..NumKeys :
                  KeyOrder[i] \notin Range(word) /\ KeyOrder[i] \notin DOMAIN guessed}
  IN ((Range(word) \cup DOMAIN guessed) \cap Keys)
       \cup {KeyOrder[i] : i \in {j \in fresh : \A k \in fresh : j <= k}}

\* the same key typed (KeyCapture) or clicked (LetterKey)
RawKeys == Pressed \cup {keyOf[k] : k \in Pressed}

\* a name is entered once, and the mode is chosen before the names are
\* entered
entered(nameInput) == trim(nameInput) \notin Range(players)
chosen(m) == players = <<>>

\* the player's next key or click comes later than the 100 ms after which
\* the score of a solved round is saved
unhurried == saveTimers = <<>>

Next ==
  \/ \E raw \in RawKeys : unhurried /\ onGuess(raw)
  \/ \E type \in Range(POOL) : unhurried /\ handlePowerUp(type)
  \/ multiplierTimeout
  \/ budget /\ unhurried /\ startGame
  \/ \E m \in Modes, resp \in Responses : budget /\ startGameResume(m, resp)
  \/ unhurried /\ Reset
  \/ \E m \in Modes : chosen(m) /\ unhurried /\ setMode(m)
  \/ \E nameInput \in NameInputs :
       entered(nameInput) /\ unhurried /\ addPlayer(nameInput)
  \/ \E idx \in 0..1 : unhurried /\ removePlayer(idx)
  \/ achievementTimeout
  \/ saveScore

Spec == Init /\ [][Next]_vars

\* Solo sessions in which the player waits for a round to start before
\* asking for another one, and starts rounds with power-up uses counted.
soloBudget ==
  /\ score <= MaxScore
  /\ perfectStreak < MaxPerfect
  /\ wordsCompleted <= MaxWords
  /\ powerUpsUsed <= MaxCarried

NextSolo ==
  \/ \E raw \in RawKeys : unhurried /\ onGuess(raw)
  \/ \E type \in Range(POOL) : unhurried /\ handlePowerUp(type)
  \/ multiplierTimeout
  \/ soloBudget /\ Pending = 0 /\ unhurried /\ startGame
  \/ \E resp \in Responses : soloBudget /\ startGameResume("solo", resp)
  \/ unhurried /\ Reset
  \/ achievementTimeout
  \/ saveScore

SpecSolo == Init /\ [][NextSolo]_vars

\* Solo sessions that go on after a round is won, with the perfect streak,
\* the count of words and the list of achievements that round has left.
roundsBudget ==
  /\ score <= MaxScore
  /\ wordsCompleted <= MaxRounds
  /\ powerUpsUsed <= MaxUsed

NextRounds ==
  \/ \E raw \in RawKeys : unhurried /\ onGuess(raw)
  \/ \E type \in Range(POOL) : unhurried /\ handlePowerUp(type)
  \/ multiplierTimeout
  \/ roundsBudget /\ Pending = 0 /\ unhurried /\ startGame
  \/ \E resp \in Responses : roundsBudget /\ startGameResume("solo", resp)
  \/ unhurried /\ Reset
  \/ achievementTimeout
  \/ saveScore

SpecRounds == Init /\ [][NextRounds]_vars

\* Solo sessions of up to MaxWins + 1 solved words, without power-up
\* activations: a round is started from setup, or after a round won
\* without a wrong guess once its notification is gone.
winsBudget ==
  /\ wordsCompleted <= MaxWins
  /\ lives = MAX_LIVES
  /\ toasts = 0

NextWins ==
  \/ \E raw \in RawKeys : unhurried /\ onGuess(raw)
  \/ winsBudget /\ Pending = 0 /\ unhurried /\ startGame
  \/ \E resp \in Responses : winsBudget /\ startGameResume("solo", resp)
  \/ unhurried /\ Reset
  \/ achievementTimeout
  \/ saveScore

SpecWins == Init /\ [][NextWins]_vars

\* A long solo session that is signed in late: up to MaxReturn + 1 words
\* are solved without a wrong guess, the player resets after a streak of
\* five, and useSession delivers the session during the last round.
returnBudget ==
  /\ wordsCompleted <= MaxReturn
  /\ lives = MAX_LIVES
  /\ toasts = 0

late == wordsCompleted = MaxReturn /\ phase = "play"

NextReturn ==
  \/ \E raw \in RawKeys : unhurried /\ onGuess(raw)
  \/ returnBudget /\ Pending = 0 /\ unhurried /\ startGame
  \/ \E resp \in Responses : returnBudget /\ startGameResume("solo", resp)
  \/ streak = 5 /\ phase = "finished" /\ unhurried /\ Reset
  \/ achievementTimeout
  \/ saveScore
  \/ late /\ signedIn
  \/ \E resp \in LoadResponses : loadAchievements(resp)

SpecReturn == Init /\ [][NextReturn]_vars

\* Solo sessions of a player with an account: useSession delivers the
\* session at some time after the page is shown, and the list of the
\* account is loaded.
NextAccount ==
  \/ \E raw \in RawKeys : unhurried /\ onGuess(raw)
  \/ \E type \in Range(POOL) : unhurried /\ handlePowerUp(type)
  \/ multiplierTimeout
  \/ budget /\ Pending = 0 /\ unhurried /\ startGame
  \/ \E resp \in Responses : budget /\ startGameResume("solo", resp)
  \/ unhurried /\ Reset
  \/ achievementTimeout
  \/ saveScore
  \/ signedIn
  \/ \E resp \in LoadResponses : loadAchievements(resp)

SpecAccount == Init /\ [][NextAccount]_vars

\* Sessions of both modes in which rounds are started with power-up uses
\* counted, one fetch at a time.
partyBudget ==
  /\ Len(achievements) <= MaxUnlocked
  /\ score <= MaxScore
  /\ perfectStreak < MaxPerfect
  /\ wordsCompleted <= MaxWords
  /\ powerUpsUsed <= MaxCarried

NextParty ==
  \/ \E raw \in RawKeys : unhurried /\ onGuess(raw)
  \/ \E type \in Range(POOL) : unhurried /\ handlePowerUp(type)
  \/ multiplierTimeout
  \/ partyBudget /\ Pending = 0 /\ unhurried /\ startGame
  \/ \E m \in Modes, resp \in Responses : partyBudget /\ startGameResume(m, resp)
  \/ unhurried /\ Reset
  \/ \E m \in Modes : chosen(m) /\ unhurried /\ setMode(m)
  \/ \E nameInput \in NameInputs :
       entered(nameInput) /\ unhurried /\ addPlayer(nameInput)
  \/ achievementTimeout
  \/ saveScore

SpecParty == Init /\ [][NextParty]_vars

\* A player who never abandons a round: the Start, New Word and Reset
\* buttons are clicked outside play only, every letter of the word can be
\* pressed, and in play the player keeps guessing letters not yet guessed.
\* The 100 ms timer of saveScore fires.
Wanted == Pressed \cup Range(word)

keepsGuessing ==
  \E raw \in Wanted \cup {keyOf[k] : k \in Wanted} : unhurried /\ onGuess(raw)

NextPersist ==
  \/ keepsGuessing
  \/ \E type \in Range(POOL) : unhurried /\ handlePowerUp(type)
  \/ multiplierTimeout
  \/ budget /\ phase # "play" /\ Pending = 0 /\ unhurried /\ startGame
  \/ \E m \in Modes, resp \in Responses : budget /\ startGameResume(m, resp)
  \/ phase # "play" /\ unhurried /\ Reset
  \/ \E m \in Modes : chosen(m) /\ unhurried /\ setMode(m)
  \/ \E nameInput \in NameInputs :
       entered(nameInput) /\ unhurried /\ addPlayer(nameInput)
  \/ \E idx \in 0..1 : unhurried /\ removePlayer(idx)
  \/ achievementTimeout
  \/ saveScore

SpecPersist ==
  /\ Init
  /\ [][NextPersist]_vars
  /\ WF_vars(keepsGuessing)
  /\ WF_vars(saveScore)

(* ------------------------------ properties ----------------------------- *)
\* every key of the model, typed or clicked
AllRaw == Keys \cup {keyOf[k] : k \in Keys}

\* A step is an accepted guess of ch exactly when it adds ch to guessed:
\* only onGuess adds a key to guessed, startGame and Reset empty it.
GuessStep(ch) ==
  /\ phase = "play"
  /\ ch \notin DOMAIN guessed
  /\ DOMAIN guessed' = DOMAIN guessed \cup {ch}

Occurrences(ch) == {i \in DOMAIN word : word[i] = ch}
Recorded(ch, status) ==
  guessed' = [c \in DOMAIN guessed \cup {ch} |-> IF c = ch THEN status ELSE guessed[c]]
AllTrue(rev) == \A i \in DOMAIN rev : rev[i] = TRUE
WrongCount(g) == Cardinality({c \in DOMAIN g : g[c] = "wrong"})

\* C1 (as amended): an accepted guess of a character that occurs in the word
\* reveals exactly the positions holding it and records it as correct; one
\* that does not occur is recorded as wrong and changes no position of
\* revealed, except that the solo guess that takes the last life reveals
\* every position.
C1_GuessReveals ==
  [][\A ch \in Keys : GuessStep(ch) =>
       IF Occurrences(ch) # {}
         THEN /\ revealed' = [i \in DOMAIN word |-> revealed[i] \/ i \in Occurrences(ch)]
              /\ Recorded(ch, "correct")
         ELSE /\ Recorded(ch, "wrong")
              /\ IF mode = "solo" /\ lives = 1
                   THEN revealed' = [i \in DOMAIN word |-> TRUE]
                   ELSE revealed' = revealed]_vars

\* C1 as stated: a guess of a character that does not occur in the word
\* never changes a position of revealed.
C1_AsStated ==
  [][\A ch \in Keys : GuessStep(ch) =>
       IF Occurrences(ch) # {}
         THEN /\ revealed' = [i \in DOMAIN word |-> revealed[i] \/ i \in Occurrences(ch)]
              /\ Recorded(ch, "correct")
         ELSE /\ Recorded(ch, "wrong")
              /\ revealed' = revealed]_vars

C1_Witness ==
  /\ phase = "play"
  /\ \E ch \in DOMAIN guessed :
       /\ guessed[ch] = "correct"
       /\ Cardinality(Occurrences(ch)) = 2
       /\ \A i \in DOMAIN word : revealed[i] <=> i \in Occurrences(ch)
  /\ \E ch \in DOMAIN guessed : guessed[ch] = "wrong"

\* C2: no reachable state is in phase play with a non-empty word of which
\* every position is revealed.
C2_SolvedAtOnce == ~(phase = "play" /\ word # <<>> /\ AllTrue(revealed))

\* C3: onGuess of a character that is already guessed, or outside phase play,
\* changes nothing, and every guess that changes the state leaves its
\* character in guessed or ends the round: the second of two equal guesses
\* is a no-op.
C3_RepeatedGuessNoOp ==
  [][\A raw \in AllRaw :
       /\ (toLowerCase(raw) \in DOMAIN guessed \/ phase # "play") =>
            (onGuess(raw) =>
               UNCHANGED <<revealed, guessed, score, lives, streak, currentIdx, phase>>)
       /\ toLowerCase(raw) \in DOMAIN guessed' \/ ~onGuess(raw)]_vars

C3_Witness ==
  /\ phase = "play"
  /\ mode = "solo"
  /\ lives = 5
  /\ score = 10
  /\ \E c, d \in DOMAIN guessed : guessed[c] = "correct" /\ guessed[d] = "wrong"

\* C4: in solo mode with the multiplier at 1, a correct guess that does not
\* solve the word adds 10 points per matched position to score.
C4_LetterPoints ==
  [][\A ch \in Keys :
       (GuessStep(ch) /\ mode = "solo" /\ scoreMultiplier = 1
          /\ Occurrences(ch) # {} /\ ~AllTrue(revealed')) =>
       score' = score + 10 * Cardinality(Occurrences(ch))]_vars

C4_Witness ==
  /\ phase = "play"
  /\ mode = "solo"
  /\ scoreMultiplier = 1
  /\ score = 20
  /\ \E ch \in DOMAIN guessed : Cardinality(Occurrences(ch)) = 2
  /\ ~AllTrue(revealed)

\* C5: while the multiplier is 2, a correct solo guess that matches k
\* positions adds 20 * k to score.
C5_DoubledPoints ==
  [][\A ch \in Keys :
       (GuessStep(ch) /\ mode = "solo" /\ scoreMultiplier = 2
          /\ Occurrences(ch) # {} /\ ~AllTrue(revealed')) =>
       score' = score + 20 * Cardinality(Occurrences(ch))]_vars

\* C6: the guess that solves a solo round at multiplier 1 adds to score 10
\* per matched position, 20 per remaining life, and 100 if no wrong guess
\* was recorded in the round.
C6_SolveScore ==
  [][\A ch \in Keys :
       (GuessStep(ch) /\ mode = "solo" /\ scoreMultiplier = 1
          /\ Occurrences(ch) # {} /\ AllTrue(revealed')) =>
       score' = score + 10 * Cardinality(Occurrences(ch)) + 20 * lives
                  + (IF WrongCount(guessed) = 0 THEN 100 ELSE 0)]_vars

\* C7: in solo mode every wrong guess leaves lives at 6 plus the extra lives
\* gained minus the wrong guesses of the round; the round ends in the same
\* step exactly when that is 0 (the 6th wrong guess without ExtraLife), with
\* every position revealed, result lose, streak and perfectStreak 0, phase
\* finished and score unchanged.
C7_LossOnLastLife ==
  [][\A ch \in Keys : (GuessStep(ch) /\ mode = "solo" /\ Occurrences(ch) = {}) =>
       /\ lives' = MAX_LIVES + livesGained - WrongCount(guessed')
       /\ score' = score
       /\ IF lives' = 0
            THEN /\ Len(revealed') = Len(word) /\ AllTrue(revealed')
                 /\ result' = "lose"
                 /\ streak' = 0
                 /\ perfectStreak' = 0
                 /\ phase' = "finished"
            ELSE /\ phase' = "play"
                 /\ result' = Null
                 /\ revealed' = revealed]_vars

C7_Witness ==
  /\ mode = "solo"
  /\ phase = "finished"
  /\ result = "lose"
  /\ lives = 0
  /\ livesGained = 0
  /\ WrongCount(guessed) = 6
  /\ AllTrue(revealed)
  /\ score = 20

\* C8: lives is never negative, and a solo round in phase play has at least
\* one life.
C8_LivesPositive ==
  /\ lives >= 0
  /\ (mode = "solo" /\ phase = "play") => lives >= 1

C8_Witness ==
  /\ mode = "solo"
  /\ phase = "finished"
  /\ lives = 0
  /\ livesGained = 1
  /\ WrongCount(guessed) = 7

\* C9: in multiplayer play with n players a wrong guess sets currentIdx to
\* (currentIdx + 1) mod n and a correct guess leaves it unchanged, and
\* 0 <= currentIdx < n in every multiplayer play state.
C9_TurnPassing ==
  [][/\ \A ch \in Keys : (GuessStep(ch) /\ mode = "multi") =>
          IF Occurrences(ch) # {} THEN currentIdx' = currentIdx
          ELSE /\ players # <<>>
               /\ currentIdx' = (currentIdx + 1) % Len(players)
     /\ ((mode' = "multi" /\ phase' = "play") =>
           (0 <= currentIdx' /\ currentIdx' < Len(players')))]_vars

Activation(type) ==
  /\ phase = "play" /\ phase' = "play"
  /\ inflight' = inflight
  /\ type \in Range(availablePowerUps)
  /\ type \notin Range(availablePowerUps')

\* C11: in every state whose mode is multiplayer, availablePowerUps is empty.
C11_NoPowerUpsInMulti == mode = "multi" => availablePowerUps = <<>>

\* C12: a power-up is only activated while its kind is in availablePowerUps,
\* the phase is play and the mode is solo, and the activation takes the kind
\* out of availablePowerUps; no other activation happens, so none changes
\* the state.
C12_SingleUse ==
  [][\A type \in Range(POOL) :
       LET legal == /\ phase = "play"
                    /\ mode = "solo"
                    /\ type \in Range(availablePowerUps)
       IN /\ handlePowerUp(type) =>
               /\ legal
               /\ availablePowerUps' = consume(availablePowerUps, type)
               /\ type \notin Range(availablePowerUps')
          /\ (~legal /\ handlePowerUp(type)) => UNCHANGED vars]_vars

C12_Witness ==
  /\ phase = "play"
  /\ mode = "solo"
  /\ availablePowerUps = <<>>
  /\ powerUp = Null
  /\ powerUpsUsed = 1
  /\ lives = MAX_LIVES + 1
  /\ guessed = <<>>

\* C13: every activation adds exactly one to powerUpsUsed and to the counter
\* of its kind, and no other step changes a usage counter.
C13_UsageCounted ==
  [][/\ \A type \in Range(POOL) : Activation(type) =>
          /\ powerUpsUsed' = powerUpsUsed + 1
          /\ doublePointsUsed' =
               doublePointsUsed + (IF type = "doublePoints" THEN 1 ELSE 0)
          /\ revealLetterUsed' =
               revealLetterUsed + (IF type = "revealLetter" THEN 1 ELSE 0)
     /\ (~ \E type \in Range(POOL) : Activation(type)) => UNCHANGED usage]_vars

\* C14: the multiplier is raised to 2 and its timer armed only by an
\* activation of doublePoints, the multiplier is 2 exactly while the timer
\* is pending, and it goes back to 1 only when the timer expires: no other
\* event arms the timer again or ends the window.
C14_WindowOnce ==
  [][/\ (scoreMultiplier' = 2 /\ scoreMultiplier # 2) => Activation("doublePoints")
     /\ (timer' /\ ~timer) => Activation("doublePoints")
     /\ (scoreMultiplier' # 2 /\ scoreMultiplier = 2) => (timer /\ ~timer')
     /\ timer' <=> scoreMultiplier' = 2]_vars

\* C15: a reset leaves the multiplier at 1 and no timer pending, and the end
\* of a round leaves no timer pending.
C15_TimerCancelled ==
  [][/\ (phase # "setup" /\ phase' = "setup") => (scoreMultiplier' = 1 /\ ~timer')
     /\ (phase = "play" /\ phase' = "finished") => ~timer']_vars

Failed(resp) ==
  \/ resp.kind \in {"throw", "notOk"}
  \/ resp.word = <<>>
  \/ resp.meaning = ""

\* C17: whenever the fetch of startGame has failed, the round starts with
\* word "hello", meaning "a greeting", display "hello", a warning in error,
\* and phase play.
C17_FallbackWord ==
  [][\A m \in Modes, resp \in Responses :
       (Failed(resp) /\ startGameResume(m, resp)) =>
         /\ word' = <<"h", "e", "l", "l", "o">>
         /\ meaning' = "a greeting"
         /\ displayRaw' = <<"h", "e", "l", "l", "o">>
         /\ error' # Null
         /\ phase' = "play"]_vars

\* C18: while a fetch of startGame is outstanding, onGuess and handlePowerUp
\* leave the state unchanged.
C18_NoInputWhileFetching ==
  [][Pending > 0 =>
       /\ \A raw \in AllRaw : onGuess(raw) => UNCHANGED vars
       /\ \A type \in Range(POOL) : handlePowerUp(type) => UNCHANGED vars]_vars

\* C19: the start of the next word from finished in solo leaves score,
\* streak, perfectStreak, wordsCompleted and the usage counters unchanged and
\* sets lives to 6, guessed to empty, revealed to all false of the length of
\* the new word, and result and winner to null.
C19_NextWordKeeps ==
  [][\A resp \in Responses :
       (phase = "finished" /\ mode = "solo" /\ startGameResume("solo", resp)) =>
         /\ UNCHANGED <<score, streak, perfectStreak, wordsCompleted, usage>>
         /\ lives' = MAX_LIVES
         /\ guessed' = <<>>
         /\ revealed' = [i \in DOMAIN word' |-> FALSE]
         /\ result' = Null
         /\ winner' = Null]_vars

\* C20: a reset from a phase other than setup yields phase setup with word,
\* meaning, display, revealed, guessed and players empty, currentIdx 0,
\* winner and result null, lives 6, availablePowerUps empty, score, streak
\* and perfectStreak 0 and multiplier 1.
C20_ResetClearsAll ==
  [][(phase # "setup" /\ phase' = "setup") =>
       /\ word' = <<>> /\ meaning' = "" /\ displayRaw' = <<>>
       /\ revealed' = <<>> /\ guessed' = <<>> /\ players' = <<>>
       /\ currentIdx' = 0 /\ winner' = Null /\ result' = Null
       /\ lives' = MAX_LIVES /\ availablePowerUps' = <<>>
       /\ score' = 0 /\ streak' = 0
       /\ perfectStreak' = 0 /\ scoreMultiplier' = 1]_vars

(* ---------------------------- achievements ----------------------------- *)
\* no element of the sequence occurs twice
Distinct(seq) == \A i, j \in DOMAIN seq : seq[i] = seq[j] => i = j

\* a round of solo play ends in this step
RoundEnd == phase = "play" /\ phase' = "finished" /\ result' # Null

\* C21: the list of unlocked achievements holds no id twice, no step removes
\* an id from it, and no id is posted for unlocking a second time.
C21_UnlockedOnce ==
  [][/\ Distinct(achievements')
     /\ Range(achievements) \subseteq Range(achievements')
     /\ Distinct(unlockRequests')]_vars

\* the outcomes of a round end, as onGuess passes them
GameData == {wonData(TRUE), wonData(FALSE), lostData}

\* the same inputs, with the result merged into the unlocked list
merged(c, newAchievements) == [c EXCEPT !.achievements = @ \o newAchievements]

\* C22: whatever the outcome and the statistics, checkAchievements returns
\* no id of the unlocked list it evaluates against, and evaluating the same
\* inputs again with its result merged into that list returns nothing.
C22_Idempotent ==
  \A gameData \in GameData :
    LET newAchievements == checkAchievements(gameData, Seen) IN
    /\ \A i \in DOMAIN newAchievements :
         ~includes(Seen.achievements, newAchievements[i])
    /\ checkAchievements(gameData, merged(Seen, newAchievements)) = <<>>

\* firstWin qualifies again while it is in the list evaluated against
C22_Witness ==
  /\ includes(Seen.achievements, "firstWin")
  /\ qualifies("firstWin", wonData(TRUE), Seen)
  /\ checkAchievements(wonData(FALSE), Seen) = <<>>

\* the outcome of the round that ends in this step
Outcome == IF result' = "win" THEN wonData(WrongCount(guessed) = 0) ELSE lostData

\* the ids that newly qualify at this round end: those whose test holds and
\* that the unlocked list does not hold
NewlyQualified ==
  Filter(tested, {id \in Range(tested) :
                    qualifies(id, Outcome, Seen) /\ ~includes(achievements, id)})

\* C23: when several achievements newly qualify at a round end, all of them
\* are in the unlocked list afterwards, an unlock request is posted for each
\* of them when a session is present, and the notification shows the first
\* of them in the order of the table.
C23_AllUnlocked ==
  [][RoundEnd /\ Len(NewlyQualified) >= 2 =>
       /\ Range(NewlyQualified) \subseteq Range(achievements')
       /\ session => unlockRequests' = unlockRequests \o NewlyQualified
       /\ showAchievement' = NewlyQualified[1]]_vars

\* C24: at the end of a solo round that is won with one life left, the
\* round having been at one life, comeback is in the unlocked list.
C24_Comeback ==
  [][RoundEnd /\ result' = "win" /\ lives = 1 =>
       includes(achievements', "comeback")]_vars

(* ------------------------------ saveScore ------------------------------ *)
\* C25: a solo solve, and no other step, arranges one save of the score;
\* the save carries the score and the streak the session has after the
\* solve, and posts its request exactly when a session is present at the
\* solve.
C25_ScoreSaved ==
  [][IF RoundEnd /\ result' = "win" THEN
       /\ saveTimers' = Append(saveTimers,
                               [score |-> score', streak |-> streak',
                                word |-> word, session |-> session])
       /\ scoreRequests' = scoreRequests
     ELSE IF saveTimers' # saveTimers THEN
       /\ saveTimers # <<>>
       /\ saveTimers' = Tail(saveTimers)
       /\ scoreRequests' = IF Head(saveTimers).session
                              THEN Append(scoreRequests, scoreBody(Head(saveTimers)))
                              ELSE scoreRequests
     ELSE scoreRequests' = scoreRequests]_vars

(* ---------------------------- perfectStreak ---------------------------- *)
\* C26: the end of a solo round won without a wrong guess adds one to
\* perfectStreak, the end of a solo round with a wrong guess, won or lost,
\* sets it to 0, and no other step changes it.
C26_PerfectStreak ==
  [][perfectStreak' =
       IF RoundEnd
         THEN (IF WrongCount(guessed') = 0 THEN perfectStreak + 1 ELSE 0)
         ELSE perfectStreak]_vars

\* a round with a wrong guess has ended after a perfect one
C26_Witness ==
  /\ phase = "finished"
  /\ wordsCompleted = 1
  /\ perfectStreak = 0
  /\ includes(achievements, "perfectGame")
  /\ WrongCount(guessed) > 0

(* ------------------------- guesses outside play ------------------------ *)
\* C27: a guess made while the phase is not play, or while no word is set,
\* changes no field of the session and emits no unlock and no save-score
\* request.
C27_GuessOutsidePlay ==
  [][(phase # "play" \/ word = <<>>) =>
       \A raw \in AllRaw : onGuess(raw) => UNCHANGED vars]_vars

\* keys can be pressed after a lost round, whose word is still shown
C27_Witness ==
  /\ phase = "finished"
  /\ result = "lose"
  /\ word # <<>>
  /\ unhurried
  /\ \E raw \in RawKeys : toLowerCase(raw) \notin DOMAIN guessed

(* ------------------------------ revealed ------------------------------- *)
\* C28: in every state revealed has one element per character of word.
C28_RevealedLength == Len(revealed) = Len(word)

\* the fallback word in play, with a position revealed by a guess or by
\* revealLetter
C28_Witness ==
  /\ phase = "play"
  /\ Len(word) = 5
  /\ \E i \in DOMAIN revealed : revealed[i]

(* --------------------------- power-up grants --------------------------- *)
\* a startGame call completes in this step: its round is in play
Started == inflight' # inflight /\ phase' = "play"

\* C29: in solo mode a round that reaches play holds exactly one kind of
\* the pool; a solo solve adds exactly one kind that is not held, or
\* nothing when all three are held; no kind is ever held twice.
C29_PowerUpGrants ==
  [][/\ Started /\ mode' = "solo" =>
          Len(availablePowerUps') = 1 /\ availablePowerUps'[1] \in Range(POOL)
     /\ RoundEnd /\ result' = "win" =>
          IF Range(POOL) \subseteq Range(availablePowerUps)
            THEN availablePowerUps' = availablePowerUps
            ELSE \E kind \in Range(POOL) \ Range(availablePowerUps) :
                   availablePowerUps' = Append(availablePowerUps, kind)
     /\ Distinct(availablePowerUps')]_vars

(* -------------------------------- phase -------------------------------- *)
\* the Reset button has acted in this step
WasReset == phase' = "setup" /\ word' = <<>> /\ players' = <<>> /\ score' = 0

\* the guess of this step solves the word or takes the last life
Ending ==
  \E ch \in DOMAIN guessed' \ DOMAIN guessed :
    \/ guessed'[ch] = "correct" /\ AllTrue(revealed')
    \/ guessed'[ch] = "wrong" /\ mode = "solo" /\ lives' = 0

\* C30: the phase changes only from setup to play and from finished to
\* play when a round start completes, from play to finished by a guess that
\* solves the word or takes the last life, and to setup by Reset; it never
\* goes from setup to finished, nor from play to finished while a position
\* is unrevealed and lives remain.
C30_PhaseEdges ==
  [][phase' # phase =>
       \/ phase \in {"setup", "finished"} /\ phase' = "play" /\ Started
       \/ phase = "play" /\ phase' = "finished" /\ Ending
       \/ phase # "setup" /\ WasReset]_vars

\* a round was started, won and left by Reset
C30_Witness ==
  /\ phase = "setup"
  /\ wordsCompleted = 1
  /\ perfectStreak = 1
  /\ word = <<>>

(* ----------------------- consumption and effect ------------------------ *)
\* the lowest index of rev that holds FALSE, or 0
LowestHidden(rev) ==
  IF \E i \in DOMAIN rev : ~rev[i]
    THEN CHOOSE i \in DOMAIN rev : ~rev[i] /\ \A j \in 1..(i - 1) : rev[j]
    ELSE 0

\* C31: every activation that takes a kind out of availablePowerUps applies
\* the effect of that kind in the same step: doublePoints sets the
\* multiplier to 2 with its timeout armed, revealLetter reveals the lowest
\* hidden position, extraLife adds one life.
C31_ConsumedWithEffect ==
  [][\A type \in Range(POOL) : Activation(type) =>
       CASE type = "doublePoints" -> scoreMultiplier' = 2 /\ timer'
         [] type = "revealLetter" ->
              revealed' = [i \in DOMAIN revealed |->
                             revealed[i] \/ i = LowestHidden(revealed)]
         [] type = "extraLife" -> lives' = lives + 1]_vars

(* ----------------------------- late fetches ---------------------------- *)
\* C32: while a round is in play, the completion of a startGame call
\* leaves word, revealed, guessed and lives of that round as they are.
C32_RoundNotReplaced ==
  [][phase = "play" /\ Started => UNCHANGED <<word, revealed, guessed, lives>>]_vars

\* Every startGame call begins with setError(null), and Reset leaves error
\* alone: in setup with an error shown no round start has been requested
\* since the reset, and a call still pending was made before it.
ResetAndIdle == phase = "setup" /\ error # Null

\* C33: after a reset, until a round start is requested, the phase stays
\* setup and word, revealed, lives and availablePowerUps stay cleared.
C33_ResetStays ==
  [][ResetAndIdle =>
       /\ phase' = "setup"
       /\ UNCHANGED <<word, revealed, lives, availablePowerUps>>]_vars

(* ------------------------------- reward -------------------------------- *)
\* C34: when the round started from the finished state of a solo win is in
\* play, the kinds held in that finished state, the reward of the solve
\* among them, are still in availablePowerUps.
C34_RewardKept ==
  [][phase = "finished" /\ result = "win" /\ Started =>
       Range(availablePowerUps) \subseteq Range(availablePowerUps')]_vars

(* --------------------------- streak5, streak10 ------------------------- *)
\* id is in the unlocked list after this step and was not before
Unlocks(id) == includes(achievements', id) /\ ~includes(achievements, id)

\* C35: streak5 (streak10) is in the unlocked list at the end of every
\* round won that brings the streak to 5 (10), and it is added to the list
\* by no round end that leaves the streak below 5 (10).
C35_StreakUnlocks ==
  [][\A n \in {5, 10} :
       LET id == IF n = 5 THEN "streak5" ELSE "streak10" IN
       /\ RoundEnd /\ result' = "win" /\ streak' = n => includes(achievements', id)
       /\ RoundEnd /\ streak' < n => ~Unlocks(id)]_vars

C37_RoundTerminates ==
  /\ [](phase = "play" =>
          /\ \E i \in DOMAIN word : word[i] \notin DOMAIN guessed
          /\ DOMAIN guessed \subseteq Range(lowerCase)
          /\ Cardinality(DOMAIN guessed) < Len(alphabet))
  /\ [][\A ch \in Range(lowerCase) :
          GuessStep(ch) /\ Range(word) \subseteq DOMAIN guessed \cup {ch} =>
            phase' = "finished"]_vars
  /\ (phase = "play" ~> phase = "finished")

\* a multiplayer round of the fallback word ended by the guess of its last
\* letter, after wrong guesses
C37_Witness ==
  /\ mode = "multi"
  /\ phase = "finished"
  /\ Len(word) = 5
  /\ WrongCount(guessed) >= 2
  /\ Range(word) \subseteq DOMAIN guessed

(* ------------------------------ multiplayer ---------------------------- *)
\* C38: in multiplayer a guess changes none of lives, score, streak,
\* perfectStreak, wordsCompleted, the usage counters and the unlocked
\* achievements and emits no unlock or score request, and a multiplayer
\* round only ends by the guess that reveals its last hidden position.
C38_MultiplayerFrame ==
  [][/\ \A ch \in Range(lowerCase) :
          GuessStep(ch) /\ mode = "multi" =>
            UNCHANGED <<lives, score, streak, perfectStreak, wordsCompleted,
                        usage, achievements, unlockRequests, outbox>>
     /\ (mode = "multi" /\ phase = "play" /\ phase' = "finished") =>
          \E ch \in Range(lowerCase) :
            GuessStep(ch) /\ Occurrences(ch) # {} /\ AllTrue(revealed')]_vars

(* ------------------------ game state and persistence ------------------- *)
\* The fields of the game after an accepted guess of ch, from the fields of
\* the game before it.
AfterGuess(ch) ==
  LET hit == Occurrences(ch) # {}
      marked == [i \in DOMAIN revealed |-> revealed[i] \/ i \in Occurrences(ch)]
      solved == hit /\ AllTrue(marked)
      perfect == WrongCount(guessed) = 0
      lost == ~hit /\ mode = "solo" /\ lives - 1 <= 0
  IN
  /\ word' = word
  /\ mode' = mode
  /\ Recorded(ch, IF hit THEN "correct" ELSE "wrong")
  /\ revealed' = IF hit THEN marked
                 ELSE IF lost THEN [i \in DOMAIN word |-> TRUE]
                 ELSE revealed
  /\ phase' = IF solved \/ lost THEN "finished" ELSE "play"
  /\ lives' = IF ~hit /\ mode = "solo" THEN lives - 1 ELSE lives
  /\ score' = IF hit /\ mode = "solo"
                THEN IF solved
                       THEN score + 20 * lives + (IF perfect THEN 100 ELSE 0)
                       ELSE score + 10 * Cardinality(Occurrences(ch))
                ELSE score
  /\ streak' = IF solved /\ mode = "solo" THEN streak + 1
               ELSE IF lost THEN 0
               ELSE streak
  /\ perfectStreak' = IF solved /\ mode = "solo"
                        THEN IF perfect THEN perfectStreak + 1 ELSE 0
                      ELSE IF lost THEN 0
                      ELSE perfectStreak
  /\ IF solved /\ mode = "solo"
       THEN \/ availablePowerUps' = availablePowerUps
            \/ \E reward \in Range(POOL) \ Range(availablePowerUps) :
                 availablePowerUps' = Append(availablePowerUps, reward)
       ELSE availablePowerUps' = availablePowerUps

\* The fields of the game after an activation of the kind type.
AfterActivation(type) ==
  /\ UNCHANGED <<phase, word, guessed, score, streak, perfectStreak, mode>>
  /\ revealed' = IF type = "revealLetter"
                   THEN [i \in DOMAIN revealed |->
                           revealed[i] \/ i = LowestHidden(revealed)]
                   ELSE revealed
  /\ lives' = IF type = "extraLife" THEN lives + 1 ELSE lives
  /\ Range(availablePowerUps') = Range(availablePowerUps) \ {type}

\* The fields of the game after a round start has completed: the word and
\* the starting power-up are those of the start.
AfterStart ==
  /\ phase' = "play"
  /\ revealed' = [i \in DOMAIN word' |-> FALSE]
  /\ guessed' = <<>>
  /\ lives' = MAX_LIVES
  /\ UNCHANGED <<score, streak, perfectStreak, mode>>

\* The fields of the game after Reset.
AfterReset ==
  /\ phase' = "setup"
  /\ word' = <<>>
  /\ revealed' = <<>>
  /\ guessed' = <<>>
  /\ lives' = MAX_LIVES
  /\ score' = 0
  /\ streak' = 0
  /\ availablePowerUps' = <<>>
  /\ UNCHANGED <<perfectStreak, mode>>

\* C39: the game does not depend on persistence.  In sessions in which the
\* credential arrives at any time, the account's list is loaded with any
\* outcome and requests are sent or not, every step leaves phase, word,
\* revealed, guessed, lives, score, streak and perfectStreak (and the mode
\* and the power-ups held, which the events read) as a function of these
\* fields and of the event alone: a guess, an activation, a round start or
\* a reset has the outcome written above, which names neither the session,
\* nor the unlocked list, nor a request, and every other step, the arrival
\* of the session, the load of the list and the timers among them, leaves
\* them unchanged.  Two runs with the same events agree on these fields.
C39_GameIgnoresPersistence ==
  [][IF \E ch \in Range(lowerCase) : GuessStep(ch)
       THEN \A ch \in Range(lowerCase) : GuessStep(ch) => AfterGuess(ch)
     ELSE IF \E type \in Range(POOL) : Activation(type)
       THEN \A type \in Range(POOL) : Activation(type) => AfterActivation(type)
     ELSE IF Started THEN AfterStart
     ELSE IF phase # "setup" /\ WasReset THEN AfterReset
     ELSE UNCHANGED <<phase, word, revealed, guessed, lives, score, streak,
                      perfectStreak, mode, availablePowerUps>>]_vars

\* a signed-in player has lost a life, solved the word, and the score was
\* posted
C39_Witness ==
  /\ session
  /\ phase = "finished"
  /\ result = "win"
  /\ WrongCount(guessed) = 1
  /\ scoreRequests # <<>>
====
